---- MODULE Spec2Model ----
(***************************************************************************)
(* Elevator dispatch and movement service (services/elevatorService.js)   *)
(* over its SQLite store (db/db.js).                                       *)
(*                                                                         *)
(* Execution model.  Node runs one callback at a time; an async function   *)
(* gives up control at every awaited store statement.  A step of the model *)
(* is one store statement together with the synchronous code that runs     *)
(* when it resolves, up to the issue of the next statement.  The audit     *)
(* INSERT of logSql touches only sql_logs, so it is taken together with    *)
(* the SELECT it precedes; an INSERT into event_logs is read by no         *)
(* statement of the service, so the state_update INSERT of                 *)
(* updateElevatorState and the arrival / door_close INSERT that follows it *)
(* are taken together with the UPDATE they follow; the call INSERT of      *)
(* callElevator and the getElevatorById of moveElevator (which only tests  *)
(* that the row exists) are taken together                                 *)
(* with the statement before them.  No statement of the service deletes a  *)
(* row of elevators; SpecDelete adds a DELETE from outside the service.    *)
(* Time is counted in ticks: a timer fires when its delay has run out, and *)
(* time advances only                                                      *)
(* when no statement is in flight and no timer is due (store latency is    *)
(* small against the timer intervals).  Statements and due timers of one   *)
(* instant interleave in any order.  event_logs is a bag of rows, each     *)
(* stamped with the tick of its insertion.                                 *)
(***************************************************************************)
EXTENDS Bags, Integers, Sequences, FiniteSets, TLC

\* ---- configuration (process.env) and bounds ------------------------------
\* NUM_ELEVATORS
NumElevators == 2
\* config.MAX_FLOORS
MAX_FLOORS == 2
\* config.FLOOR_TRAVEL_TIME_MS, in ticks
FLOOR_TRAVEL_TIME_MS == 2
\* config.DOOR_ACTION_TIME_MS, in ticks
DOOR_ACTION_TIME_MS == 1
\* accepted calls per behaviour of Spec
MaxJobs == 2
\* accepted calls per behaviour of SpecLow
MaxLowJobs == 1
\* floors below floor 1 that a request of SpecLow may name
BelowGround == 2

VARIABLES
    elevators,   \* table elevators: id -> row
    event_logs,  \* table event_logs: a bag of rows
    procs,       \* async activations waiting on a store statement
    timers,      \* pending setTimeout callbacks
    response,    \* <<r>> if the latest step returned r from callElevator, else <<>>
    jobCount,    \* number of job ids generated so far
    now          \* the clock read by new Date(), in ticks

vars == <<elevators, event_logs, procs, timers, response, jobCount, now>>

ElevatorIds == 1..NumElevators
\* floor numbers of the requests of Spec and of SpecLow
FloorInputs == 1..(MAX_FLOORS + 1)
LowFloorInputs == (1 - BelowGround)..(MAX_FLOORS + 1)

Abs(x) == IF x < 0 THEN -x ELSE x

\* ---- db.js ---------------------------------------------------------------
\* JSON text of a value; JSON.parse gives the value back.
JSONstringify(v) == [json |-> v]
JSONparse(text) == text.json

\* INSERT of initializeDb: [i, 1, 'Idle', 'None', '[]'].
InitialRow(i) ==
    [id |-> i, current_floor |-> 1, state |-> "Idle", direction |-> "None",
     job_queue |-> JSONstringify(<<>>)]

\* SELECT * FROM elevators: the rows in rowid order, job_queue left as text.
getElevators ==
    LET present(i) == i \in DOMAIN elevators
        ids == SelectSeq([i \in 1..NumElevators |-> i], present)
    IN  [k \in 1..Len(ids) |-> elevators[ids[k]]]

\* SELECT ... WHERE id = ?: <<>> for null, else the row with job_queue parsed.
getElevatorById(id) ==
    IF id \in DOMAIN elevators
    THEN <<[elevators[id] EXCEPT !.job_queue = JSONparse(@)]>>
    ELSE <<>>

\* newState.f || elevator.f : the supplied value unless absent or falsy.
Supplied(newState, f) ==
    /\ f \in DOMAIN newState
    /\ (f = "current_floor" => newState[f] # 0)

MergedRow(elevator, newState) ==
    [id |-> elevator.id,
     current_floor |-> IF Supplied(newState, "current_floor")
                       THEN newState.current_floor ELSE elevator.current_floor,
     state |-> IF Supplied(newState, "state")
               THEN newState.state ELSE elevator.state,
     direction |-> IF Supplied(newState, "direction")
                   THEN newState.direction ELSE elevator.direction,
     job_queue |-> JSONstringify(IF Supplied(newState, "job_queue")
                                 THEN newState.job_queue ELSE elevator.job_queue)]

\* details of the state_update event: the three fields of newState itself.
StateUpdateDetails(newState) ==
    [f \in (DOMAIN newState) \cap {"state", "direction", "current_floor"} |-> newState[f]]

\* (an INSERT that is not carried out)
logEventDropped(log, elevator_id, event_type, details) == log

\* INSERT INTO event_logs, timestamp new Date().
logEvent(log, elevator_id, event_type, details) ==
    log (+) SetToBag({[timestamp |-> now, elevator_id |-> elevator_id,
                       event_type |-> event_type,
                       details |-> JSONstringify(details)]})

\* ---- elevatorService.js --------------------------------------------------
\* (a loop that also replaces the candidate on an equal distance)
isCloserOrEqual(distance, minDistance) == distance <= minDistance

isCloser(distance, minDistance) == distance < minDistance

RECURSIVE closestLoop(_, _, _, _, _)
closestLoop(idle, i, closestElevator, minDistance, startFloor) ==
    IF i > Len(idle) THEN closestElevator
    ELSE LET distance == Abs(idle[i].current_floor - startFloor) IN
         IF isCloser(distance, minDistance)
         THEN closestLoop(idle, i + 1, idle[i], distance, startFloor)
         ELSE closestLoop(idle, i + 1, closestElevator, minDistance, startFloor)

isIdle(e) == e.state = "Idle"

\* <<>> for null, else <<row>>.
findClosestIdleElevator(rows, startFloor) ==
    LET idle == SelectSeq(rows, isIdle) IN
    IF Len(idle) = 0 THEN <<>>
    ELSE <<closestLoop(idle, 2, idle[1], Abs(idle[1].current_floor - startFloor),
                       startFloor)>>

\* (a validation that forgets the start = end case)
InvalidFloorsAboveOnly(startFloor, endFloor) ==
    \/ startFloor > MAX_FLOORS
    \/ endFloor > MAX_FLOORS

InvalidFloors(startFloor, endFloor) ==
    \/ startFloor = endFloor
    \/ startFloor > MAX_FLOORS
    \/ endFloor > MAX_FLOORS

Direction(startFloor, endFloor) == IF endFloor > startFloor THEN "Up" ELSE "Down"

\* (a job id that is not generated per call)
uuidFixed(n) == 1

\* uuidv4(): a value no earlier call of it returned; n counts the earlier calls.
uuidv4(n) == n + 1

\* An activation: fn is the function it runs, pc the statement it waits on.
\* startFloor/endFloor are the leg's floors, floor the floor of a step,
\* callEnd the end floor of the call (leg 1 only), elevator the row read by
\* updateElevatorState.  jobId and leg identify the activation.
Proc(fn, pc, elevatorId, startFloor, endFloor, floor, jobId, leg, callEnd) ==
    [fn |-> fn, pc |-> pc, elevatorId |-> elevatorId, startFloor |-> startFloor,
     endFloor |-> endFloor, floor |-> floor, jobId |-> jobId, leg |-> leg,
     callEnd |-> callEnd, elevator |-> <<>>]

Timer(delay, callback, elevatorId, startFloor, endFloor, floor, jobId, leg) ==
    [delay |-> delay, callback |-> callback, elevatorId |-> elevatorId,
     startFloor |-> startFloor, endFloor |-> endFloor, floor |-> floor,
     jobId |-> jobId, leg |-> leg]

\* (a door close that leaves the direction of the leg in the row)
NewStateKeepsDirection(p) ==
    CASE p.fn = "moveElevator" ->
           [state |-> "Moving", direction |-> Direction(p.startFloor, p.endFloor),
            job_queue |-> <<[start |-> p.startFloor, end |-> p.endFloor,
                             jobId |-> p.jobId]>>]
      [] p.fn = "floorIterator" -> [current_floor |-> p.floor]
      [] p.fn = "arriveAtFloor" -> [state |-> "DoorsOpen"]
      [] p.fn = "doorClose" -> [state |-> "Idle", job_queue |-> <<>>]

\* The partial update an activation hands to updateElevatorState.
NewState(p) ==
    CASE p.fn = "moveElevator" ->
           [state |-> "Moving", direction |-> Direction(p.startFloor, p.endFloor),
            job_queue |-> <<[start |-> p.startFloor, end |-> p.endFloor,
                             jobId |-> p.jobId]>>]
      [] p.fn = "floorIterator" -> [current_floor |-> p.floor]
      [] p.fn = "arriveAtFloor" -> [state |-> "DoorsOpen"]
      [] p.fn = "doorClose" ->
           [state |-> "Idle", direction |-> "None", job_queue |-> <<>>]

\* (a floorIterator that writes the floor before it tests for the end)
floorIteratorWritesFirst(p, currentFloor) ==
    {Proc("floorIterator", "update.read", p.elevatorId, p.startFloor,
          p.endFloor, currentFloor, p.jobId, p.leg, 0)}

\* floorIterator(currentFloor) of the leg of p: the activations it starts ...
floorIteratorProcs(p, currentFloor) ==
    IF currentFloor = p.endFloor
    THEN {Proc("arriveAtFloor", "update.read", p.elevatorId, p.startFloor,
               p.endFloor, p.endFloor, p.jobId, p.leg, 0)}
    ELSE {Proc("floorIterator", "update.read", p.elevatorId, p.startFloor,
               p.endFloor, currentFloor, p.jobId, p.leg, 0)}

\* ... and the timer it sets.
floorIteratorTimers(p, currentFloor) ==
    IF currentFloor = p.endFloor THEN {}
    ELSE LET nextFloor == IF Direction(p.startFloor, p.endFloor) = "Up"
                          THEN currentFloor + 1 ELSE currentFloor - 1 IN
         {Timer(FLOOR_TRAVEL_TIME_MS, "floorIterator", p.elevatorId, p.startFloor,
                p.endFloor, nextFloor, p.jobId, p.leg)}

\* (a leg-2 timer that allows for one door interval only)
Leg2TimerOneDoor(p) ==
    Timer(Abs(p.endFloor - p.startFloor) * FLOOR_TRAVEL_TIME_MS
              + DOOR_ACTION_TIME_MS,
          "moveElevator", p.elevatorId, p.endFloor, p.callEnd, 0, p.jobId, 2)

\* callElevator after `await moveElevator` of leg 1: the leg-2 timer.
Leg2Timer(p) ==
    Timer(Abs(p.endFloor - p.startFloor) * FLOOR_TRAVEL_TIME_MS
              + DOOR_ACTION_TIME_MS * 2,
          "moveElevator", p.elevatorId, p.endFloor, p.callEnd, 0, p.jobId, 2)

Dispatched(p) ==
    [success |-> TRUE, jobId |-> p.jobId, message |-> "Elevator dispatched.",
     elevator_id |-> p.elevatorId, status |-> "Moving"]

\* (a rejection that always reports the floor-validation message)
RejectedAsInvalid(message) ==
    [success |-> FALSE, message |-> "Invalid floor numbers."]

Rejected(message) == [success |-> FALSE, message |-> message]

\* moveElevator calls floorIterator(startFloor) and returns to its caller.
\* For leg 1 the caller is callElevator, which sets the leg-2 timer and returns.
MoveReturns(p) ==
    /\ procs' = (procs \ {p}) \cup floorIteratorProcs(p, p.startFloor)
    /\ timers' = timers
                 \cup floorIteratorTimers(p, p.startFloor)
                 \cup (IF p.leg = 1 THEN {Leg2Timer(p)} ELSE {})
    /\ response' = IF p.leg = 1 THEN <<Dispatched(p)>> ELSE <<>>

\* What runs when updateElevatorState of p returns; log is event_logs as
\* updateElevatorState leaves it.
UpdateReturns(p, log) ==
    CASE p.fn = "moveElevator" ->
           /\ event_logs' = log
           /\ MoveReturns(p)
      [] p.fn = "floorIterator" ->
           /\ event_logs' = log
           /\ procs' = procs \ {p}
           /\ response' = <<>>
           /\ UNCHANGED timers
      [] p.fn = "arriveAtFloor" ->
           /\ event_logs' = logEvent(log, p.elevatorId, "arrival",
                                     [current_floor |-> p.floor, doors |-> "open"])
           /\ procs' = procs \ {p}
           /\ timers' = timers \cup
                  {Timer(DOOR_ACTION_TIME_MS, "doorClose", p.elevatorId,
                         p.startFloor, p.endFloor, p.floor, p.jobId, p.leg)}
           /\ response' = <<>>
      [] p.fn = "doorClose" ->
           /\ event_logs' = logEvent(log, p.elevatorId, "door_close",
                                     [current_floor |-> p.floor, doors |-> "closed"])
           /\ procs' = procs \ {p}
           /\ response' = <<>>
           /\ UNCHANGED timers

\* ---- state machine -------------------------------------------------------
Init ==
    /\ elevators = [i \in ElevatorIds |-> InitialRow(i)]
    /\ event_logs = EmptyBag
    /\ procs = {}
    /\ timers = {}
    /\ response = <<>>
    /\ jobCount = 0
    /\ now = 0

\* callElevator up to the first statement of updateElevatorState: validation,
\* getElevators, selection, job id, the call event, and the getElevatorById
\* of moveElevator (ids are never deleted, so it finds the selected row).
callElevator(startFloor, endFloor) ==
    IF InvalidFloors(startFloor, endFloor)
    THEN /\ response' = <<Rejected("Invalid floor numbers.")>>
         /\ UNCHANGED <<elevators, event_logs, procs, timers, jobCount, now>>
    ELSE LET found == findClosestIdleElevator(getElevators, startFloor) IN
         IF Len(found) = 0
         THEN /\ response' = <<Rejected("No idle elevators available.")>>
              /\ UNCHANGED <<elevators, event_logs, procs, timers, jobCount, now>>
         ELSE /\ jobCount' = jobCount + 1
              /\ event_logs' = logEvent(event_logs, found[1].id, "call",
                                        [start_floor |-> startFloor,
                                         end_floor |-> endFloor,
                                         jobId |-> uuidv4(jobCount)])
              /\ procs' = procs \cup
                    {Proc("moveElevator", "update.read", found[1].id,
                          found[1].current_floor, startFloor, 0,
                          uuidv4(jobCount), 1, endFloor)}
              /\ response' = <<>>
              /\ UNCHANGED <<elevators, timers, now>>

\* getElevatorById of updateElevatorState.
UpdateRead(p) ==
    /\ p.pc = "update.read"
    /\ LET elevator == getElevatorById(p.elevatorId) IN
       IF Len(elevator) = 0
       THEN UpdateReturns(p, event_logs)
       ELSE /\ procs' = (procs \ {p}) \cup
                        {[p EXCEPT !.pc = "update.write", !.elevator = elevator]}
            /\ response' = <<>>
            /\ UNCHANGED <<event_logs, timers>>
    /\ UNCHANGED <<elevators, jobCount, now>>

\* (an UPDATE without its WHERE clause)
UpdateWriteAllRows(p) ==
    /\ p.pc = "update.write"
    /\ elevators' = [i \in DOMAIN elevators |->
                        [MergedRow(p.elevator[1], NewState(p)) EXCEPT !.id = i]]
    /\ UpdateReturns(p, logEvent(event_logs, p.elevatorId, "state_update",
                                 StateUpdateDetails(NewState(p))))
    /\ UNCHANGED <<jobCount, now>>

\* UPDATE elevators SET ... WHERE id = ?, the state_update event, and the
\* return of updateElevatorState.
UpdateWrite(p) ==
    /\ p.pc = "update.write"
    /\ elevators' = IF p.elevatorId \in DOMAIN elevators
                    THEN [elevators EXCEPT ![p.elevatorId] =
                              MergedRow(p.elevator[1], NewState(p))]
                    ELSE elevators
    /\ UpdateReturns(p, logEvent(event_logs, p.elevatorId, "state_update",
                                 StateUpdateDetails(NewState(p))))
    /\ UNCHANGED <<jobCount, now>>

\* setTimeout(() => floorIterator(nextFloor), FLOOR_TRAVEL_TIME_MS) fires.
FloorTimer(t) ==
    /\ t.callback = "floorIterator" /\ t.delay = 0
    /\ procs' = procs \cup floorIteratorProcs(t, t.floor)
    /\ timers' = (timers \ {t}) \cup floorIteratorTimers(t, t.floor)
    /\ response' = <<>>
    /\ UNCHANGED <<elevators, event_logs, jobCount, now>>

\* The door timer of arriveAtFloor fires.
DoorTimer(t) ==
    /\ t.callback = "doorClose" /\ t.delay = 0
    /\ procs' = procs \cup
                {Proc("doorClose", "update.read", t.elevatorId, t.startFloor,
                      t.endFloor, t.floor, t.jobId, t.leg, 0)}
    /\ timers' = timers \ {t}
    /\ response' = <<>>
    /\ UNCHANGED <<elevators, event_logs, jobCount, now>>

\* The leg-2 timer of callElevator fires: moveElevator up to the first
\* statement of updateElevatorState, or its return if the row is not there.
MoveTimer(t) ==
    /\ t.callback = "moveElevator" /\ t.delay = 0
    /\ procs' = IF Len(getElevatorById(t.elevatorId)) = 0
                THEN procs
                ELSE procs \cup
                     {Proc("moveElevator", "update.read", t.elevatorId,
                           t.startFloor, t.endFloor, 0, t.jobId, t.leg, 0)}
    /\ timers' = timers \ {t}
    /\ response' = <<>>
    /\ UNCHANGED <<elevators, event_logs, jobCount, now>>

\* One tick of time passes.
Tick ==
    /\ procs = {}
    /\ timers # {}
    /\ \A t \in timers : t.delay > 0
    /\ timers' = {[t EXCEPT !.delay = @ - 1] : t \in timers}
    /\ now' = now + 1
    /\ response' = <<>>
    /\ UNCHANGED <<elevators, event_logs, procs, jobCount>>

Next ==
    \/ \E startFloor \in FloorInputs, endFloor \in FloorInputs :
           callElevator(startFloor, endFloor) /\ jobCount' <= MaxJobs
    \/ \E p \in procs : UpdateRead(p)
    \/ \E p \in procs : UpdateWrite(p)
    \/ \E t \in timers : FloorTimer(t)
    \/ \E t \in timers : DoorTimer(t)
    \/ \E t \in timers : MoveTimer(t)
    \/ Tick

Spec == Init /\ [][Next]_vars

\* The same service, one accepted call, requests that may name floors below 1.
NextLow ==
    \/ \E startFloor \in LowFloorInputs, endFloor \in LowFloorInputs :
           callElevator(startFloor, endFloor) /\ jobCount' <= MaxLowJobs
    \/ \E p \in procs : UpdateRead(p)
    \/ \E p \in procs : UpdateWrite(p)
    \/ \E t \in timers : FloorTimer(t)
    \/ \E t \in timers : DoorTimer(t)
    \/ \E t \in timers : MoveTimer(t)
    \/ Tick

SpecLow == Init /\ [][NextLow]_vars

\* ---- properties ------------------------------------------------------------
Rows == BagToSet(event_logs)
CallRows == {r \in Rows : r.event_type = "call"}
Activations == procs \cup timers
NoActivationOn(e) == \A x \in Activations : x.elevatorId # e
NoneIdle == \A e \in ElevatorIds : elevators[e].state # "Idle"
SomeIdle == \E e \in ElevatorIds : elevators[e].state = "Idle"
InvalidReply == <<[success |-> FALSE, message |-> "Invalid floor numbers."]>>
NoIdleReply == <<[success |-> FALSE, message |-> "No idle elevators available."]>>
\* the call activations accepted by the step
Accepted ==
    {p \in procs' \ procs : p.fn = "moveElevator" /\ p.leg = 1 /\ p.pc = "update.read"}
IdleRow(e, floor) ==
    /\ elevators[e].current_floor = floor
    /\ elevators[e].state = "Idle"
    /\ elevators[e].direction = "None"
    /\ JSONparse(elevators[e].job_queue) = <<>>

\* C1: once the trip of an accepted call (start_floor, end_floor) is over
\* (nothing of it is pending and no other call was given its elevator), the
\* elevator's row has current_floor = end_floor, state Idle, direction None
\* and an empty job queue.
C1_TripEndsAtEndFloor ==
    \A r \in CallRows :
        (/\ NoActivationOn(r.elevator_id)
         /\ \A o \in CallRows : o.elevator_id = r.elevator_id => o = r
         /\ CopiesIn(r, event_logs) = 1)
        => IdleRow(r.elevator_id, JSONparse(r.details).end_floor)

\* C2: the elevator a call selects is Idle in the rows the call reads, no
\* Idle elevator of those rows is strictly closer to start_floor, and among
\* the equally distant Idle ones it has the lowest id; the elevator returned
\* is the selected one.
C2_ClosestIdleSelected ==
    [][/\ \A p \in Accepted :
             /\ elevators[p.elevatorId].state = "Idle"
             /\ p.startFloor = elevators[p.elevatorId].current_floor
             /\ \A o \in ElevatorIds :
                   elevators[o].state = "Idle" =>
                      LET mine == Abs(elevators[p.elevatorId].current_floor - p.endFloor)
                          other == Abs(elevators[o].current_floor - p.endFloor)
                      IN  mine < other \/ (mine = other /\ p.elevatorId <= o)
       /\ (response' # <<>> /\ response'[1].success) =>
             \E p \in procs : /\ p.leg = 1
                              /\ p.jobId = response'[1].jobId
                              /\ p.elevatorId = response'[1].elevator_id
      ]_vars

\* C2 witness: a call has selected elevator 2 although elevator 1 is Idle,
\* because elevator 1 is strictly farther from the call's start floor.
C2_Witness ==
    \E p \in procs :
        /\ p.fn = "moveElevator" /\ p.leg = 1 /\ p.pc = "update.read"
        /\ p.elevatorId = 2
        /\ elevators[1].state = "Idle"
        /\ elevators[2].state = "Idle"
        /\ Abs(elevators[1].current_floor - p.endFloor)
             > Abs(elevators[2].current_floor - p.endFloor)

\* C3: a call is never given an elevator that an earlier accepted call still
\* uses: at the step that accepts a call for an elevator, no timer of that
\* elevator is pending (in particular no leg-2 timer) and no leg 2 runs on it.
C3_OneActiveJob ==
    [][\A p \in Accepted :
          /\ \A t \in timers : t.elevatorId # p.elevatorId
          /\ \A q \in procs : q.elevatorId = p.elevatorId => q.leg # 2
      ]_vars

\* C4: two calls that are both between their selection and their Moving
\* write never hold the same elevator.
C4_NoDoubleSelection ==
    \A p, q \in procs :
        (/\ p.leg = 1 /\ q.leg = 1
         /\ p.fn = "moveElevator" /\ q.fn = "moveElevator"
         /\ p.elevatorId = q.elevatorId)
        => p.jobId = q.jobId

\* C5: for every elevator row, direction = None iff state = Idle iff the job
\* queue is empty.
C5_RowInvariant ==
    \A e \in ElevatorIds :
        /\ (elevators[e].direction = "None") <=> (elevators[e].state = "Idle")
        /\ (elevators[e].state = "Idle") <=> (JSONparse(elevators[e].job_queue) = <<>>)

\* C6: a call with start_floor = end_floor or a floor above MAX_FLOORS returns
\* success = false, "Invalid floor numbers.", and changes no elevator row,
\* appends no event, starts no activation and sets no timer.
C6_InvalidFloorsRejected ==
    [][\A startFloor, endFloor \in FloorInputs :
          (/\ (startFloor = endFloor \/ startFloor > MAX_FLOORS
                 \/ endFloor > MAX_FLOORS)
           /\ callElevator(startFloor, endFloor))
          => /\ response' = InvalidReply
             /\ UNCHANGED <<elevators, event_logs, procs, timers>>
      ]_vars

\* C6 witness: the invalid-floors reply was returned while a job is under way.
C6_Witness == response = InvalidReply /\ procs # {} /\ jobCount > 0

\* C7: a call that names a floor below 1 returns success = false and changes
\* no elevator row, appends no event and starts nothing.
C7_LowFloorsRejected ==
    [][\A startFloor, endFloor \in LowFloorInputs :
          (/\ (startFloor < 1 \/ endFloor < 1)
           /\ callElevator(startFloor, endFloor))
          => /\ response' # <<>>
             /\ response'[1].success = FALSE
             /\ UNCHANGED <<elevators, event_logs, procs, timers>>
      ]_vars

\* C8: every elevator row has 1 <= current_floor <= MAX_FLOORS.
C8_FloorInRange ==
    \A e \in ElevatorIds :
        /\ elevators[e].current_floor >= 1
        /\ elevators[e].current_floor <= MAX_FLOORS

\* C9: a call with valid floors made when no elevator is Idle returns
\* success = false, "No idle elevators available.", and changes no elevator
\* row, appends no event, starts no activation and sets no timer.
C9_NoIdleRejected ==
    [][\A startFloor, endFloor \in FloorInputs :
          (/\ startFloor # endFloor
           /\ startFloor \in 1..MAX_FLOORS /\ endFloor \in 1..MAX_FLOORS
           /\ NoneIdle
           /\ callElevator(startFloor, endFloor))
          => /\ response' = NoIdleReply
             /\ UNCHANGED <<elevators, event_logs, procs, timers>>
      ]_vars

\* C9 witness: the no-idle reply was returned and no elevator is Idle.
C9_Witness == response = NoIdleReply /\ NoneIdle

\* C10: a call with start_floor # end_floor, both in 1..MAX_FLOORS, made when
\* some elevator is Idle is accepted with a job id that no earlier accepted
\* call has, and it returns success = true with that job id and its elevator.
C10_ValidCallAccepted ==
    [][/\ \A startFloor, endFloor \in FloorInputs :
             (/\ startFloor # endFloor
              /\ startFloor \in 1..MAX_FLOORS /\ endFloor \in 1..MAX_FLOORS
              /\ SomeIdle
              /\ callElevator(startFloor, endFloor))
             => /\ response' = <<>>
                /\ \E p \in Accepted :
                      /\ p.endFloor = startFloor /\ p.callEnd = endFloor
                      /\ \A x \in Activations : x.jobId # p.jobId
                      /\ \A r \in CallRows : JSONparse(r.details).jobId # p.jobId
       /\ \A p \in procs :
             (/\ p.fn = "moveElevator" /\ p.leg = 1
              /\ \A q \in procs' : ~(q.fn = "moveElevator" /\ q.leg = 1
                                      /\ q.jobId = p.jobId))
             => response' = <<[success |-> TRUE, jobId |-> p.jobId,
                               message |-> "Elevator dispatched.",
                               elevator_id |-> p.elevatorId, status |-> "Moving"]>>
      ]_vars

\* C10 witness: the second accepted call has returned success with job id 2
\* while the event log holds the call of job 1.
C10_Witness ==
    /\ response # <<>>
    /\ response[1].success
    /\ response[1].jobId = 2
    /\ \E r \in CallRows : JSONparse(r.details).jobId = 1

\* C11: a leg-2 start (the deferred moveElevator of a call) that reads its
\* elevator in a state other than Idle, and finds it still not Idle when it
\* writes, leaves the elevator's row as it is.
C11_Leg2StartGuarded ==
    [][\A p \in procs :
          (/\ p.fn = "moveElevator" /\ p.leg = 2 /\ p.pc = "update.write"
           /\ p \notin procs'
           /\ p.elevator[1].state # "Idle"
           /\ elevators[p.elevatorId].state # "Idle")
          => elevators'[p.elevatorId] = elevators[p.elevatorId]
      ]_vars

\* the changes of the stored state that the elevator state machine allows
LegalTransitions ==
    {<<"Idle", "Moving">>, <<"Moving", "DoorsOpen">>, <<"DoorsOpen", "Idle">>}

\* C12: a step that changes an elevator's stored state takes it Idle -> Moving,
\* Moving -> DoorsOpen or DoorsOpen -> Idle (Moving -> Moving leaves it as it is).
C12_LegalTransitions ==
    [][\A e \in ElevatorIds :
          elevators'[e].state # elevators[e].state
          => <<elevators[e].state, elevators'[e].state>> \in LegalTransitions
      ]_vars

\* C13: a step that changes an elevator's stored current_floor changes it by
\* exactly one floor, and the elevator's stored state is Moving at that step.
C13_SingleFloorSteps ==
    [][\A e \in ElevatorIds :
          elevators'[e].current_floor # elevators[e].current_floor
          => /\ Abs(elevators'[e].current_floor - elevators[e].current_floor) = 1
             /\ elevators[e].state = "Moving"
      ]_vars

\* the events of elevator e in a log, and their number
EventsOf(log, e) == [r \in {x \in DOMAIN log : x.elevator_id = e} |-> log[r]]
EventCount(log, e) == BagCardinality(EventsOf(log, e))

\* C14: the write of a leg start, of a floor step, of an arrival or of a door
\* close appends exactly one event for its elevator, and an appended event is
\* stamped no earlier than the events its elevator already has.
C14_OneEventPerTransition ==
    [][/\ \A p \in procs \ procs' :
             p.pc = "update.write"
             => EventCount(event_logs', p.elevatorId)
                  = EventCount(event_logs, p.elevatorId) + 1
       /\ \A r \in DOMAIN event_logs' :
             CopiesIn(r, event_logs') > CopiesIn(r, event_logs)
             => \A o \in DOMAIN event_logs :
                   o.elevator_id = r.elevator_id => o.timestamp <= r.timestamp
      ]_vars

\* C15: a state_update event appended by a step carries the state, the
\* direction and the current_floor of its elevator's row as the step leaves it.
C15_StateUpdateCarriesMergedRow ==
    [][\A r \in DOMAIN event_logs' :
          (/\ r.event_type = "state_update"
           /\ CopiesIn(r, event_logs') > CopiesIn(r, event_logs))
          => JSONparse(r.details)
               = [state |-> elevators'[r.elevator_id].state,
                  direction |-> elevators'[r.elevator_id].direction,
                  current_floor |-> elevators'[r.elevator_id].current_floor]
      ]_vars

\* C16: the write of updateElevatorState gives every supplied field the
\* supplied value and leaves every omitted field as the store holds it at the
\* moment of the write.
C16_AtomicMerge ==
    [][\A p \in procs \ procs' :
          p.pc = "update.write"
          => LET supplied == NewState(p)
                 stored == elevators[p.elevatorId]
                 written == elevators'[p.elevatorId]
             IN  /\ \A f \in {"current_floor", "state", "direction"} :
                       written[f] = IF f \in DOMAIN supplied
                                    THEN supplied[f] ELSE stored[f]
                 /\ JSONparse(written.job_queue)
                      = IF "job_queue" \in DOMAIN supplied
                        THEN supplied.job_queue ELSE JSONparse(stored.job_queue)
      ]_vars

\* ---- status query (getElevatorStatus) ----------------------------------------
\* accepted calls per behaviour of SpecStatus
MaxStatusJobs == 1

\* The elevatorId argument: undefined, a number n, or a string, the decimal
\* text of n (what the route passes from the query string).
StatusIds ==
    {[kind |-> "undefined", n |-> 0]}
        \cup {[kind |-> k, n |-> n] : k \in {"number", "string"},
                                      n \in 0..(NumElevators + 1)}

\* if (elevatorId): undefined and the number 0 are falsy, a non-empty string
\* (also "0") is truthy.
Truthy(elevatorId) ==
    \/ elevatorId.kind = "string"
    \/ elevatorId.kind = "number" /\ elevatorId.n # 0

\* parseInt of a number or of its decimal text.
parseInt(elevatorId) == elevatorId.n

\* (an audit record written to the event log instead of sql_logs)
logSqlAsEvent(log, query_text) ==
    logEvent(log, 0, "sql", [query_text |-> query_text])

\* logSql: INSERT INTO sql_logs; event_logs is left as it is.
logSql(log, query_text) == log

\* The list getElevatorStatus returns, as the reply of a status request.
StatusReply(rows) == [elevators |-> rows]

\* getElevatorStatus(elevatorId): one audited SELECT, then the return.
getElevatorStatus(elevatorId) ==
    /\ response' = <<StatusReply(IF Truthy(elevatorId)
                                 THEN getElevatorById(parseInt(elevatorId))
                                 ELSE getElevators)>>
    /\ event_logs' = logSql(event_logs, "SELECT * FROM elevators")
    /\ UNCHANGED <<elevators, procs, timers, jobCount, now>>

\* The service with status requests arriving at any point.
NextStatus ==
    \/ \E startFloor \in FloorInputs, endFloor \in FloorInputs :
           callElevator(startFloor, endFloor) /\ jobCount' <= MaxStatusJobs
    \/ \E elevatorId \in StatusIds : getElevatorStatus(elevatorId)
    \/ \E p \in procs : UpdateRead(p)
    \/ \E p \in procs : UpdateWrite(p)
    \/ \E t \in timers : FloorTimer(t)
    \/ \E t \in timers : DoorTimer(t)
    \/ \E t \in timers : MoveTimer(t)
    \/ Tick

SpecStatus == Init /\ [][NextStatus]_vars

\* C17: getElevatorStatus with an id returns the empty list when no elevator
\* has that id and the one-element list of that elevator's stored row (its
\* job queue parsed) when one has; without an id it returns every elevator's
\* stored row in id order.
C17_StatusResult ==
    [][\A elevatorId \in StatusIds :
          getElevatorStatus(elevatorId)
          => LET rows == response'[1].elevators IN
             IF elevatorId.kind = "undefined"
             THEN rows = [i \in 1..NumElevators |-> elevators[i]]
             ELSE IF elevatorId.n \in ElevatorIds
                  THEN rows = <<[elevators[elevatorId.n]
                                    EXCEPT !.job_queue = JSONparse(@)]>>
                  ELSE rows = <<>>
      ]_vars

\* C18: a status request leaves every elevator row and the event log as they
\* are, starts no activation and sets no timer.
C18_StatusIsPureRead ==
    [][\A elevatorId \in StatusIds :
          getElevatorStatus(elevatorId)
          => UNCHANGED <<elevators, event_logs, procs, timers>>
      ]_vars

\* C18 witness: a status request has been answered while an elevator is Moving
\* and a floor timer of its leg is pending.
C18_Witness ==
    /\ response # <<>>
    /\ "elevators" \in DOMAIN response[1]
    /\ \E t \in timers : /\ t.callback = "floorIterator"
                         /\ elevators[t.elevatorId].state = "Moving"

\* the call event of an accepted call
CallEvent(p) ==
    [timestamp |-> now, elevator_id |-> p.elevatorId, event_type |-> "call",
     details |-> JSONstringify([start_floor |-> p.endFloor,
                                end_floor |-> p.callEnd, jobId |-> p.jobId])]

\* C19: the step that accepts a call appends exactly one call event, for the
\* selected elevator, with the call's floors and job id, and changes no
\* elevator row; no other step appends a call event, a rejecting step appends
\* nothing; and a success reply carries the job id of exactly one call event,
\* which is an event of the elevator the reply names.
C19_OneCallEvent ==
    [][/\ \A p \in Accepted :
             /\ event_logs' = event_logs (+) SetToBag({CallEvent(p)})
             /\ elevators' = elevators
       /\ \A r \in DOMAIN event_logs' :
             (r.event_type = "call"
                /\ CopiesIn(r, event_logs') > CopiesIn(r, event_logs))
             => Accepted # {}
       /\ response' \in {InvalidReply, NoIdleReply} => event_logs' = event_logs
       /\ (response' # <<>> /\ response'[1].success)
             => \E r \in DOMAIN event_logs' :
                   /\ r.event_type = "call"
                   /\ r.elevator_id = response'[1].elevator_id
                   /\ JSONparse(r.details).jobId = response'[1].jobId
                   /\ CopiesIn(r, event_logs') = 1
                   /\ \A o \in DOMAIN event_logs' :
                         (o.event_type = "call"
                            /\ JSONparse(o.details).jobId = response'[1].jobId)
                         => o = r
      ]_vars

\* C19 witness: a call has returned success, the log holds its call event,
\* and its elevator is stored as Moving with that job.
C19_Witness ==
    /\ response # <<>>
    /\ response[1].success
    /\ \E r \in CallRows :
          /\ r.elevator_id = response[1].elevator_id
          /\ JSONparse(r.details).jobId = response[1].jobId
          /\ elevators[r.elevator_id].state = "Moving"
          /\ JSONparse(elevators[r.elevator_id].job_queue)[1].jobId
               = response[1].jobId

\* ---- POST /api/elevator/call (routes/elevator.js) ---------------------------
\* accepted calls per behaviour of SpecHttp
MaxHttpJobs == 1

\* A field of the request body: a number, a string, or absent.
BodyValues ==
    {[type |-> "number", value |-> n] : n \in FloorInputs}
        \cup {[type |-> "string", value |-> n] : n \in 1..MAX_FLOORS}
        \cup {[type |-> "undefined", value |-> 0]}

\* typeof start_floor !== 'number' || typeof end_floor !== 'number'
NotNumbers(start_floor, end_floor) ==
    start_floor.type # "number" \/ end_floor.type # "number"

\* res.status(400).json({ error: 'Start and end floors must be numbers.' })
BadRequest ==
    [status |-> 400, json |-> [error |-> "Start and end floors must be numbers."]]

\* (a route that answers every dispatcher result with 202)
routeReplyAccepted(result) == [status |-> 202, json |-> result]

\* The answer of the route to the value callElevator returned.
routeReply(result) ==
    IF result.success
    THEN [status |-> 202, json |-> result]
    ELSE [status |-> 400, json |-> [error |-> result.message]]

\* The answer sent for r, the value in response: the route's own 400 or its
\* answer to the dispatcher's result.
HttpAnswer(r) == IF "success" \in DOMAIN r THEN routeReply(r) ELSE r

\* router.post('/call'): the type check, then callElevator.
postCall(start_floor, end_floor) ==
    IF NotNumbers(start_floor, end_floor)
    THEN /\ response' = <<BadRequest>>
         /\ UNCHANGED <<elevators, event_logs, procs, timers, jobCount, now>>
    ELSE callElevator(start_floor.value, end_floor.value)

\* The service behind its POST route.
NextHttp ==
    \/ \E start_floor \in BodyValues, end_floor \in BodyValues :
           postCall(start_floor, end_floor) /\ jobCount' <= MaxHttpJobs
    \/ \E p \in procs : UpdateRead(p)
    \/ \E p \in procs : UpdateWrite(p)
    \/ \E t \in timers : FloorTimer(t)
    \/ \E t \in timers : DoorTimer(t)
    \/ \E t \in timers : MoveTimer(t)
    \/ Tick

SpecHttp == Init /\ [][NextHttp]_vars

\* C20: a request whose start_floor or end_floor is not a number is answered
\* 400 "Start and end floors must be numbers." and changes no elevator row,
\* no event, no activation, no timer and no job count; a result with
\* success = true is answered 202 with its jobId, "Elevator dispatched." and
\* status "Moving", and a result with success = false is answered 400 with
\* the result's message as error.
C20_RouteAnswers ==
    [][/\ \A start_floor, end_floor \in BodyValues :
             (/\ NotNumbers(start_floor, end_floor)
              /\ postCall(start_floor, end_floor))
             => /\ HttpAnswer(response'[1]) = BadRequest
                /\ UNCHANGED <<elevators, event_logs, procs, timers, jobCount>>
       /\ (response' # <<>> /\ "success" \in DOMAIN response'[1])
             => LET result == response'[1]
                    answer == HttpAnswer(result)
                IN  IF result.success
                    THEN /\ answer.status = 202
                         /\ answer.json.jobId = result.jobId
                         /\ answer.json.message = "Elevator dispatched."
                         /\ answer.json.status = "Moving"
                         /\ \E q \in procs : /\ q.leg = 1
                                              /\ q.jobId = result.jobId
                    ELSE /\ answer.status = 400
                         /\ answer.json = [error |-> result.message]
                         /\ UNCHANGED <<elevators, event_logs, procs, timers,
                                        jobCount>>
      ]_vars

\* C20 witness: the route has answered 400 for a body without numbers while
\* an accepted call is moving its elevator.
C20_Witness ==
    /\ response = <<BadRequest>>
    /\ jobCount > 0
    /\ \E e \in ElevatorIds : elevators[e].state = "Moving"

\* ---- termination ------------------------------------------------------------
\* The event loop runs every due timer callback and the store completes every
\* statement handed to it; the clock advances.  Calls arrive or not.
Fairness ==
    /\ WF_vars(\E p \in procs : UpdateRead(p))
    /\ WF_vars(\E p \in procs : UpdateWrite(p))
    /\ WF_vars(\E t \in timers : FloorTimer(t))
    /\ WF_vars(\E t \in timers : DoorTimer(t))
    /\ WF_vars(\E t \in timers : MoveTimer(t))
    /\ WF_vars(Tick)

SpecFair == Init /\ [][Next]_vars /\ Fairness

JobIds == 1..MaxJobs
\* the elevator the call of job j selected
ElevatorOf(j) ==
    (CHOOSE r \in CallRows : JSONparse(r.details).jobId = j).elevator_id
\* job j was accepted and no timer, read or write of it is pending
JobOver(j) == j <= jobCount /\ \A x \in Activations : x.jobId # j
IdleState(e) ==
    /\ elevators[e].state = "Idle"
    /\ elevators[e].direction = "None"
    /\ JSONparse(elevators[e].job_queue) = <<>>

\* C21: every accepted call j eventually has nothing pending with its
\* elevator Idle, direction None and an empty job queue; and from any such
\* state the elevator stays so for as long as no further call is accepted.
C21_JobEndsIdle ==
    \A j \in JobIds :
        /\ (j <= jobCount) ~> (JobOver(j) /\ IdleState(ElevatorOf(j)))
        /\ \A n \in j..MaxJobs :
              []((JobOver(j) /\ IdleState(ElevatorOf(j)) /\ jobCount = n)
                   => [](jobCount = n => IdleState(ElevatorOf(j))))

\* ---- ordering within a leg ---------------------------------------------------
\* x and y belong to the same leg of the same job on the same elevator
SameLeg(x, y) ==
    x.elevatorId = y.elevatorId /\ x.jobId = y.jobId /\ x.leg = y.leg
\* the updateElevatorState calls in flight that floorIterator issued
FloorWrites == {p \in procs : p.fn = "floorIterator"}
\* the state writes that end a leg: arrival and door close
ArrivalWrites == {p \in procs : p.fn \in {"arriveAtFloor", "doorClose"}}

\* C22: a step that sets the timer of the next floor step of a leg leaves no
\* current_floor write of that leg in flight; at no time are two writes of
\* one leg in flight; and no current_floor write of a leg is in flight once
\* the arrival of that leg has been issued (its arrival or door-close write
\* is in flight or its door timer is set).
C22_StepAfterWrite ==
    [][/\ \A t \in timers' \ timers :
             (t.callback = "floorIterator" /\ t.delay = FLOOR_TRAVEL_TIME_MS)
             => \A p \in procs' : p.fn = "floorIterator" => ~SameLeg(p, t)
       /\ \A p, q \in procs' : SameLeg(p, q) => p = q
       /\ \A p \in FloorWrites' :
             /\ \A q \in ArrivalWrites' : ~SameLeg(p, q)
             /\ \A t \in timers' : t.callback = "doorClose" => ~SameLeg(p, t)
      ]_vars

\* ---- the two legs of a call -------------------------------------------------
\* the activations whose updateElevatorState returns in this step
Writers == {p \in procs \ procs' : p.pc = "update.write"}
\* job jobId is the only call that was given elevator e
OnlyCallOn(e, jobId) ==
    \A o \in CallRows : o.elevator_id = e => JSONparse(o.details).jobId = jobId
DoorCloseRows(e, floor) ==
    {r \in Rows : /\ r.elevator_id = e
                  /\ r.event_type = "door_close"
                  /\ JSONparse(r.details).current_floor = floor}

\* C23: when the Moving write of leg 1 (from c, the floor the call read for
\* its elevator, to start_floor) returns, the leg-2 timer is set for
\* |start_floor - c| * FLOOR_TRAVEL_TIME_MS + 2 * DOOR_ACTION_TIME_MS with
\* legs start_floor -> end_floor; and if no other call was given the
\* elevator, the Moving write of leg 2 finds the door-close event of leg 1
\* logged at an earlier tick and the elevator Idle, both in the row it read
\* and in the row it overwrites.
C23_Leg2AfterDoorClose ==
    [][\A p \in Writers :
          /\ (p.fn = "moveElevator" /\ p.leg = 1) =>
                /\ \E t \in timers' \ timers :
                      /\ t.callback = "moveElevator" /\ t.leg = 2
                      /\ t.jobId = p.jobId /\ t.elevatorId = p.elevatorId
                      /\ t.startFloor = p.endFloor /\ t.endFloor = p.callEnd
                      /\ t.delay = Abs(p.endFloor - p.startFloor) * FLOOR_TRAVEL_TIME_MS
                                       + 2 * DOOR_ACTION_TIME_MS
                /\ OnlyCallOn(p.elevatorId, p.jobId)
                      => p.startFloor = elevators[p.elevatorId].current_floor
          /\ (p.fn = "moveElevator" /\ p.leg = 2
                 /\ OnlyCallOn(p.elevatorId, p.jobId)) =>
                /\ p.elevator[1].state = "Idle"
                /\ elevators[p.elevatorId].state = "Idle"
                /\ elevators'[p.elevatorId].state = "Moving"
                /\ \E r \in DoorCloseRows(p.elevatorId, p.startFloor) :
                      r.timestamp < now
      ]_vars

\* C23 witness: leg 2 of the only call on an elevator has written Moving
\* with its own job entry (start_floor -> end_floor).
C23_Witness ==
    \E r \in CallRows :
        LET d == JSONparse(r.details) IN
        /\ OnlyCallOn(r.elevator_id, d.jobId)
        /\ elevators[r.elevator_id].state = "Moving"
        /\ JSONparse(elevators[r.elevator_id].job_queue) =
              <<[start |-> d.start_floor, end |-> d.end_floor, jobId |-> d.jobId]>>

\* ---- arrival and door events of a call --------------------------------------
\* the rows of event_type logged for elevator e, as a bag
EventBag(log, e, event_type) ==
    LET match == {r \in BagToSet(log) : r.elevator_id = e /\ r.event_type = event_type}
    IN  [r \in match |-> log[r]]
ArrivalRows(e) == BagToSet(EventBag(event_logs, e, "arrival"))
CloseRows(e) == BagToSet(EventBag(event_logs, e, "door_close"))
FloorOf(r) == JSONparse(r.details).current_floor

\* The arrival and door-close events of the call logged as row c, the only
\* call on its elevator.
DoorEventsOfCall(c) ==
    LET e == c.elevator_id
        d == JSONparse(c.details)
        arrivals == EventBag(event_logs, e, "arrival")
        closes == EventBag(event_logs, e, "door_close")
        arrivalRows == BagToSet(arrivals)
        closeRows == BagToSet(closes)
    IN  /\ \A a \in arrivalRows :
              /\ arrivals[a] = 1
              /\ JSONparse(a.details).doors = "open"
              /\ FloorOf(a) \in {d.start_floor, d.end_floor}
              /\ a.timestamp >= c.timestamp
              /\ \A b \in arrivalRows : FloorOf(b) = FloorOf(a) => b = a
              \* the second arrival comes after the first door close
              /\ FloorOf(a) = d.end_floor =>
                    \E k \in closeRows : /\ FloorOf(k) = d.start_floor
                                          /\ k.timestamp < a.timestamp
        /\ \A k \in closeRows :
              /\ closes[k] = 1
              /\ JSONparse(k.details).doors = "closed"
              /\ \A b \in closeRows : FloorOf(b) = FloorOf(k) => b = k
              \* one door interval after the arrival at the same floor
              /\ \E a \in arrivalRows :
                    /\ FloorOf(a) = FloorOf(k)
                    /\ k.timestamp = a.timestamp + DOOR_ACTION_TIME_MS
        /\ JobOver(d.jobId) =>
              /\ {FloorOf(a) : a \in arrivalRows} = {d.start_floor, d.end_floor}
              /\ {FloorOf(k) : k \in closeRows} = {d.start_floor, d.end_floor}

\* C24: for a call that is the only one on its elevator, the arrival events
\* of the elevator are at most one at start_floor and one at end_floor, doors
\* open; each door_close event comes one door interval after the arrival at
\* its floor, doors closed, one per arrival; the door close at start_floor
\* is logged before the arrival at end_floor; when the job is over there are
\* exactly the two arrivals and the two door closes.  The step that logs an
\* arrival leaves the row in state DoorsOpen; the step that logs a door close
\* leaves it Idle, direction None, job queue empty.  (The events and the end
\* of a job change only in steps that append to event_logs.)
C24_ArrivalAndDoorEvents ==
    [][event_logs' # event_logs =>
          \A c \in CallRows' :
             OnlyCallOn(c.elevator_id, JSONparse(c.details).jobId)' =>
                /\ DoorEventsOfCall(c)'
                /\ EventBag(event_logs', c.elevator_id, "arrival")
                      # EventBag(event_logs, c.elevator_id, "arrival")
                    => elevators'[c.elevator_id].state = "DoorsOpen"
                /\ EventBag(event_logs', c.elevator_id, "door_close")
                      # EventBag(event_logs, c.elevator_id, "door_close")
                    => IdleState(c.elevator_id)'
      ]_vars

\* C24 witness: the job of the only call on an elevator is over, with both
\* arrivals and both door closes logged.
C24_Witness ==
    \E c \in CallRows :
        LET d == JSONparse(c.details) IN
        /\ OnlyCallOn(c.elevator_id, d.jobId)
        /\ JobOver(d.jobId)
        /\ Cardinality(ArrivalRows(c.elevator_id)) = 2
        /\ Cardinality(CloseRows(c.elevator_id)) = 2

\* ---- one leg ------------------------------------------------------------------
\* the arrival sequences this step starts: floorIterator has reached endFloor
Arrivals ==
    {p \in procs' \ procs : p.fn = "arriveAtFloor" /\ p.pc = "update.read"}
\* the tick of the latest Moving write logged for elevator e
LegStart(e) ==
    LET moving == {r \in Rows : /\ r.elevator_id = e
                                /\ r.event_type = "state_update"
                                /\ "state" \in DOMAIN JSONparse(r.details)
                                /\ JSONparse(r.details).state = "Moving"}
    IN  CHOOSE x \in {r.timestamp : r \in moving} :
            \A r \in moving : r.timestamp <= x
Between(x, a, b) == (a <= x /\ x <= b) \/ (b <= x /\ x <= a)

\* C25: for a leg from s to t, s # t, of the only call on its elevator: the
\* Moving write stores direction Up if t > s and Down otherwise; a
\* current_floor write changes the stored floor by at most one, to a floor
\* between s and t; the arrival sequence starts |t - s| travel intervals
\* after the Moving write, and the stored current_floor is then t.
C25_LegReachesEndFloor ==
    [][/\ \A p \in Writers :
             OnlyCallOn(p.elevatorId, p.jobId) =>
                /\ (p.fn = "moveElevator" /\ p.startFloor # p.endFloor) =>
                      elevators'[p.elevatorId].direction =
                          (IF p.endFloor > p.startFloor THEN "Up" ELSE "Down")
                /\ p.fn = "floorIterator" =>
                      /\ Abs(elevators'[p.elevatorId].current_floor
                                - elevators[p.elevatorId].current_floor) <= 1
                      /\ Between(elevators'[p.elevatorId].current_floor,
                                 p.startFloor, p.endFloor)
       /\ \A p \in Arrivals :
             (OnlyCallOn(p.elevatorId, p.jobId) /\ p.startFloor # p.endFloor) =>
                /\ now = LegStart(p.elevatorId)
                           + Abs(p.endFloor - p.startFloor) * FLOOR_TRAVEL_TIME_MS
                /\ elevators[p.elevatorId].current_floor = p.endFloor
      ]_vars

\* ---- a leg of length zero ------------------------------------------------------
ZeroLength(x) == x.startFloor = x.endFloor

\* C26: for a leg with startFloor = endFloor of the only call on its
\* elevator: nothing of the leg is ever a floor step (no floorIterator timer,
\* no current_floor write); the arrival sequence starts in the step in which
\* the Moving write returns; the DoorsOpen write replaces Moving at the tick
\* of the Moving write, the door-close write replaces DoorsOpen by Idle one
\* door interval later; and none of the leg's writes changes current_floor.
C26_ZeroLengthLeg ==
    [][/\ \A x \in procs' \cup timers' :
             (ZeroLength(x) /\ OnlyCallOn(x.elevatorId, x.jobId)') =>
                /\ x \in procs' => x.fn # "floorIterator"
                /\ x \in timers' => x.callback # "floorIterator"
       /\ \A p \in Writers :
             (ZeroLength(p) /\ OnlyCallOn(p.elevatorId, p.jobId)) =>
                /\ elevators'[p.elevatorId].current_floor
                      = elevators[p.elevatorId].current_floor
                /\ p.fn = "moveElevator" =>
                      /\ elevators'[p.elevatorId].state = "Moving"
                      /\ \E q \in Arrivals : SameLeg(p, q)
                /\ p.fn = "arriveAtFloor" =>
                      /\ now = LegStart(p.elevatorId)
                      /\ elevators[p.elevatorId].state = "Moving"
                      /\ elevators'[p.elevatorId].state = "DoorsOpen"
                /\ p.fn = "doorClose" =>
                      /\ now = LegStart(p.elevatorId) + DOOR_ACTION_TIME_MS
                      /\ elevators[p.elevatorId].state = "DoorsOpen"
                      /\ elevators'[p.elevatorId].state = "Idle"
      ]_vars

\* C26 witness: one door interval after its call, the only call on an
\* elevator that stood at start_floor has closed its doors there: leg 1 had
\* length zero.
C26_Witness ==
    \E c \in CallRows :
        LET d == JSONparse(c.details) IN
        /\ OnlyCallOn(c.elevator_id, d.jobId)
        /\ now = c.timestamp + DOOR_ACTION_TIME_MS
        /\ IdleRow(c.elevator_id, d.start_floor)
        /\ DoorCloseRows(c.elevator_id, d.start_floor) # {}
        /\ \E t \in timers : t.jobId = d.jobId /\ t.callback = "moveElevator"

\* ---- a row deleted from outside ------------------------------------------------
\* accepted calls per behaviour of SpecDelete
MaxDeleteJobs == 1

\* DELETE FROM elevators WHERE id = e, issued by another client of the store.
deleteElevator(e) ==
    /\ e \in DOMAIN elevators
    /\ elevators' = [i \in (DOMAIN elevators) \ {e} |-> elevators[i]]
    /\ response' = <<>>
    /\ UNCHANGED <<event_logs, procs, timers, jobCount, now>>

NextDelete ==
    \/ \E startFloor \in FloorInputs, endFloor \in FloorInputs :
           callElevator(startFloor, endFloor) /\ jobCount' <= MaxDeleteJobs
    \/ \E p \in procs : UpdateRead(p)
    \/ \E p \in procs : UpdateWrite(p)
    \/ \E t \in timers : FloorTimer(t)
    \/ \E t \in timers : DoorTimer(t)
    \/ \E t \in timers : MoveTimer(t)
    \/ Tick
    \/ \E e \in ElevatorIds : deleteElevator(e)

SpecDelete == Init /\ [][NextDelete]_vars

\* the timers of elevator e that this step has set
NewTimers(e) ==
    {t \in timers' : /\ t.elevatorId = e
                     /\ t \notin timers
                     /\ [t EXCEPT !.delay = @ + 1] \notin timers}
\* every row logged for elevator e, as a bag
AllEvents(log, e) ==
    LET match == {r \in BagToSet(log) : r.elevator_id = e} IN [r \in match |-> log[r]]

\* C27: once the row of elevator e is gone, no step sets a timer for e, no
\* step appends an event for e, and a step that runs an activation of e
\* changes no row.
C27_AbandonedAfterDelete ==
    [][\A e \in ElevatorIds :
          e \notin DOMAIN elevators =>
             /\ NewTimers(e) = {}
             /\ AllEvents(event_logs', e) = AllEvents(event_logs, e)
             /\ (\E x \in (procs \ procs') \cup (timers \ timers') :
                    x.elevatorId = e) => elevators' = elevators
      ]_vars

\* ---- chains on different elevators ---------------------------------------------
\* the activations whose getElevatorById of updateElevatorState returned a row
\* in this step
Readers == {q \in procs' \ procs : q.pc = "update.write"}

\* C28: a step that changes a row is the write of one activation; it changes
\* the row of that activation's elevator only, to the merge of the update
\* with the row the activation read, and the row an activation reads is the
\* row of its own elevator; every other step (dispatch, timer, read, tick)
\* changes no row.
C28_OtherRowsUnchanged ==
    [][/\ elevators' # elevators =>
             \E p \in Writers :
                /\ \A o \in ElevatorIds \ {p.elevatorId} :
                      elevators'[o] = elevators[o]
                /\ p.elevator[1].id = p.elevatorId
                /\ elevators'[p.elevatorId]
                      = MergedRow(p.elevator[1], NewState(p))
       /\ \A q \in Readers :
             q.elevator = <<[elevators[q.elevatorId] EXCEPT
                               !.job_queue = JSONparse(@)]>>
      ]_vars

\* C28 witness: chains of two calls are under way on two elevators at once.
C28_Witness ==
    \E e, o \in ElevatorIds :
        /\ e # o
        /\ elevators[e].state = "Moving"
        /\ elevators[o].state = "DoorsOpen"
        /\ \E p \in procs : p.elevatorId = e /\ p.pc = "update.write"
        /\ \E t \in timers : t.elevatorId = o /\ t.callback = "doorClose"

\* ---- initializeDb and the start of the process (app.js) ------------------------
\* accepted calls per behaviour of SpecInit
MaxInitJobs == 1

\* parseInt(process.env.NUM_ELEVATORS, 10) || 3
numElevators == IF NumElevators = 0 THEN 3 ELSE NumElevators

\* (a count whose condition no row meets, so that it always finds 0)
elevatorCountZero == Cardinality({i \in DOMAIN elevators : i > numElevators})

\* SELECT COUNT(*) as count FROM elevators
elevatorCount == Cardinality(DOMAIN elevators)

\* The activation of initializeDb: pc is the statement it waits on, i the
\* loop variable of the INSERT loop.
InitProc(pc, i) == Proc("initializeDb", pc, i, 0, 0, 0, 0, 0, 0)
Initializing == {p \in procs : p.fn = "initializeDb"}
\* app.listen has run: initializeDb has resolved in this process.
Listening == Initializing = {} /\ DOMAIN elevators # {}

\* The store before the first start of the process: no rows.
InitEmpty ==
    /\ elevators = <<>>
    /\ event_logs = EmptyBag
    /\ procs = {}
    /\ timers = {}
    /\ response = <<>>
    /\ jobCount = 0
    /\ now = 0

\* The process starts (for the first time, or again after it was stopped:
\* the store is kept, the activations and timers of the old process are
\* gone) and calls initializeDb, up to its COUNT statement; the CREATE TABLE
\* IF NOT EXISTS statements change no row.
initializeDb ==
    /\ Initializing = {}
    /\ procs' = {InitProc("count", 0)}
    /\ timers' = {}
    /\ response' = <<>>
    /\ UNCHANGED <<elevators, event_logs, jobCount, now>>

\* The COUNT statement returns: the INSERT loop starts if it was 0.
InitCount(p) ==
    /\ p.fn = "initializeDb" /\ p.pc = "count"
    /\ procs' = IF elevatorCount = 0 /\ 1 <= numElevators
                THEN {InitProc("insert", 1)}
                ELSE {}
    /\ response' = <<>>
    /\ UNCHANGED <<elevators, event_logs, timers, jobCount, now>>

\* INSERT INTO elevators ... VALUES (i, 1, 'Idle', 'None', '[]') and i++.
InitInsert(p) ==
    /\ p.fn = "initializeDb" /\ p.pc = "insert"
    /\ elevators' = [k \in (DOMAIN elevators) \cup {p.elevatorId} |->
                        IF k = p.elevatorId THEN InitialRow(k) ELSE elevators[k]]
    /\ procs' = IF p.elevatorId + 1 <= numElevators
                THEN {InitProc("insert", p.elevatorId + 1)}
                ELSE {}
    /\ response' = <<>>
    /\ UNCHANGED <<event_logs, timers, jobCount, now>>

NextInit ==
    \/ initializeDb
    \/ \E p \in procs : InitCount(p)
    \/ \E p \in procs : InitInsert(p)
    \/ \E startFloor \in FloorInputs, endFloor \in FloorInputs :
           /\ Listening
           /\ callElevator(startFloor, endFloor)
           /\ jobCount' <= MaxInitJobs
    \/ \E p \in procs : UpdateRead(p)
    \/ \E p \in procs : UpdateWrite(p)
    \/ \E t \in timers : FloorTimer(t)
    \/ \E t \in timers : DoorTimer(t)
    \/ \E t \in timers : MoveTimer(t)
    \/ Tick

SpecInit == InitEmpty /\ [][NextInit]_vars

\* C29: when initializeDb resolves after it found the store empty, the store
\* holds exactly the ids 1..NUM_ELEVATORS, each row at floor 1, Idle, None,
\* job queue '[]'; when it finds rows in the store it resolves with every
\* row as it was; and once the service listens, no step changes the set of
\* ids, which is 1..NUM_ELEVATORS.
C29_InitializeDb ==
    [][/\ \A p \in Initializing :
             /\ (p.pc = "insert" /\ Initializing' = {}) =>
                   /\ DOMAIN elevators' = 1..NumElevators
                   /\ \A i \in 1..NumElevators :
                         elevators'[i] =
                           [id |-> i, current_floor |-> 1, state |-> "Idle",
                            direction |-> "None", job_queue |-> [json |-> <<>>]]
             /\ (p.pc = "count" /\ DOMAIN elevators # {}) =>
                   /\ Initializing' = {}
                   /\ elevators' = elevators
       /\ Listening =>
             /\ DOMAIN elevators = 1..NumElevators
             /\ DOMAIN elevators' = DOMAIN elevators
      ]_vars

\* C29 witness: initializeDb has resolved in a process started on a store
\* whose elevator was left Moving by the process before it (no activation
\* or timer of that leg exists any more), and the row is as it was.
C29_Witness ==
    /\ Listening
    /\ procs = {}
    /\ timers = {}
    /\ \E e \in DOMAIN elevators : elevators[e].state = "Moving"

====
